---- MODULE Spec2Model ----
(***************************************************************************)
(* Leadership monitor, leader loop, membership reconciler and partition    *)
(* failover planner of the jocko broker (jocko/leader.go).                 *)
(***************************************************************************)
EXTENDS Integers, Sequences, FiniteSets, TLC

\* ------------------------------------------------------------- bounds
NumBrokers == 3
NumPartitions == 1
MaxLoops == 2
MaxChanges == 2
ReconcileChCap == 1

\* ------------------------------------------------- program constants
NotifyChCap == 1
SelfID == 1
MinServersForSelfJoin == 3

Brokers == 1..NumBrokers
Partitions == 1..NumPartitions
Tokens == 1..MaxLoops

VARIABLES
  monPc,          \* monitorLeadership: "select" | "wait" | "returned"
  weAreLeaderCh,  \* 0 = nil, else the token of the live leader loop
  wg,             \* the leaderLoop sync.WaitGroup counter
  monLog,         \* the last line monitorLeadership logged
  notifyCh,       \* raftNotifyCh, buffered
  raftLeader,     \* whether raft currently holds leadership (last edge sent)
  shutdown,       \* shutdownCh is closed
  stopClosed,     \* tokens whose channel has been closed
  loop,           \* per token: the leaderLoop goroutine's locals and position
  ready,          \* consistentReadReady
  members,        \* serf LAN members: broker -> status
  tags,           \* serf tags: broker -> [bootstrap, nonVoter]
  changesLeft,    \* membership changes that may still happen
  reconcileCh,    \* s.reconcileCh, buffered member events
  nodes,          \* fsm: broker -> "absent" | "passing" | "critical"
  parts,          \* fsm: partition -> [Leader, AR, ISR]
  raftCfg,        \* raft configuration: broker -> "none" | "voter" | "nonvoter"
  sent,           \* LeaderAndISR requests delivered by the last planner run
  last,           \* locals of the most recent reconcileMember call
  settled,        \* a full reconcile pass without error ran since the last change
  undelivered,    \* history: partitions whose committed reassignment no
                  \* completed broadcast has carried yet
  crashed         \* the process was terminated by a panic

vars == <<monPc, weAreLeaderCh, wg, monLog, notifyCh, raftLeader, shutdown,
          stopClosed, loop, ready, members, tags, changesLeft, reconcileCh,
          nodes, parts, raftCfg, sent, last, settled, undelivered, crashed>>

monitorVars == <<monPc, weAreLeaderCh, wg, monLog, stopClosed>>
raftVars == <<notifyCh, raftLeader>>
serfVars == <<members, tags, changesLeft, reconcileCh>>
fsmVars == <<nodes, parts, raftCfg, sent, last, settled, undelivered, crashed>>

\* ------------------------------------------------------------ helpers
Range(s) == {s[i] : i \in 1..Len(s)}

\* the `for _, r := range xs { if r != id { out = append(out, r) } }` loops
Without(xs, id) == SelectSeq(xs, LAMBDA r : r # id)

RECURSIVE AscendingFrom(_, _)
AscendingFrom(n, S) ==
  IF n > NumBrokers THEN <<>>
  ELSE IF n \in S THEN <<n>> \o AscendingFrom(n + 1, S)
  ELSE AscendingFrom(n + 1, S)

\* injected failures of the calls a handler makes; `at` names the partition
\* or broker at which the failure strikes
Fault(k, a) == [kind |-> k, at |-> a]

\* the calls that can fail in the handler of a member with this status
Faults(status) ==
  IF status = "alive"
  THEN {Fault(k, 0) : k \in {"none", "config", "raftop", "fsmread", "apply"}}
  ELSE IF status = "left"
  THEN {Fault(k, 0) : k \in {"none", "config", "raftop", "raftop2", "fsmread", "apply"}}
  ELSE {Fault(k, 0) : k \in {"none", "apply", "getparts", "fsmread"}}
         \cup {Fault("applypart", p) : p \in Partitions}
         \cup {Fault("rpc", n) : n \in Brokers}

\* --------------------------------------------------- consensus adapter
Servers(cfg) == {s \in Brokers : cfg[s] # "none"}

AddVoter(cfg, id) == [cfg EXCEPT ![id] = "voter"]

AddNonvoter(cfg, id) ==
  IF cfg[id] = "none" THEN [cfg EXCEPT ![id] = "nonvoter"] ELSE cfg

RemoveServer(cfg, id) == [cfg EXCEPT ![id] = "none"]

\* ------------------------------------------------------- metadata FSM
RegisterNode(ns, id, status) == [ns EXCEPT ![id] = status]

DeregisterNode(ns, id) == [ns EXCEPT ![id] = "absent"]

RegisterPartition(ps, p, rec) == [ps EXCEPT ![p] = rec]

\* ------------------------------------------------------ broker lookup
BrokerLookup(mem) == {b \in Brokers : mem[b] = "alive"}

\* s.LANMembers(): a broker with status "none" is no member
LANMembers(mem) == {b \in Brokers : mem[b] # "none"}

\* -------------------------------------------------------- reconciler
\* mutant: other members in bootstrap mode are not looked for
joinClusterNoBootstrapCheck(cfg, mem, tg, b, f) ==
  IF f.kind = "config" THEN [cfg |-> cfg, err |-> TRUE]
  ELSE IF b = SelfID /\ Cardinality(Servers(cfg)) < MinServersForSelfJoin
  THEN [cfg |-> cfg, err |-> FALSE]
  ELSE IF f.kind = "raftop" THEN [cfg |-> cfg, err |-> TRUE]
  ELSE IF tg[b].nonVoter THEN [cfg |-> AddNonvoter(cfg, b), err |-> FALSE]
  ELSE [cfg |-> AddVoter(cfg, b), err |-> FALSE]

\* mutant: the NonVoter flag is not looked at
joinClusterAlwaysVoter(cfg, mem, tg, b, f) ==
  IF tg[b].bootstrap /\ \E o \in LANMembers(mem) : o # b /\ tg[o].bootstrap
  THEN [cfg |-> cfg, err |-> FALSE]
  ELSE IF f.kind = "config" THEN [cfg |-> cfg, err |-> TRUE]
  ELSE IF b = SelfID /\ Cardinality(Servers(cfg)) < MinServersForSelfJoin
  THEN [cfg |-> cfg, err |-> FALSE]
  ELSE IF f.kind = "raftop" THEN [cfg |-> cfg, err |-> TRUE]
  ELSE [cfg |-> AddVoter(cfg, b), err |-> FALSE]

joinCluster(cfg, mem, tg, b, f) ==
  IF tg[b].bootstrap /\ \E o \in LANMembers(mem) : o # b /\ tg[o].bootstrap
  THEN [cfg |-> cfg, err |-> FALSE]
  ELSE IF f.kind = "config" THEN [cfg |-> cfg, err |-> TRUE]
  ELSE IF b = SelfID /\ Cardinality(Servers(cfg)) < MinServersForSelfJoin
  THEN [cfg |-> cfg, err |-> FALSE]
  ELSE IF f.kind = "raftop" THEN [cfg |-> cfg, err |-> TRUE]
  ELSE IF tg[b].nonVoter THEN [cfg |-> AddNonvoter(cfg, b), err |-> FALSE]
  ELSE [cfg |-> AddVoter(cfg, b), err |-> FALSE]

handleAliveMember(st, mem, tg, b, f) ==
  LET j == joinCluster(st.cfg, mem, tg, b, f)
      st1 == [st EXCEPT !.cfg = j.cfg]
  IN  IF j.err THEN [st |-> st, err |-> "err"]
      ELSE IF f.kind = "fsmread" THEN [st |-> st1, err |-> "err"]
      ELSE IF st1.nodes[b] # "absent" THEN [st |-> st1, err |-> "nil"]
      ELSE IF f.kind = "apply" THEN [st |-> st1, err |-> "err"]
      ELSE [st |-> [st1 EXCEPT !.nodes = RegisterNode(st1.nodes, b, "passing")],
            err |-> "nil"]

\* mutant: every iteration removes the server it ranges over
removeServerEvery(cfg, b, f) ==
  IF f.kind = "config" THEN [cfg |-> cfg, err |-> TRUE]
  ELSE IF Servers(cfg) = {} THEN [cfg |-> cfg, err |-> FALSE]
  ELSE IF f.kind = "raftop" THEN [cfg |-> cfg, err |-> TRUE]
  ELSE [cfg |-> [s \in Brokers |-> "none"], err |-> FALSE]

removeServer(cfg, b, f) ==
  IF f.kind = "config" THEN [cfg |-> cfg, err |-> TRUE]
  ELSE IF Servers(cfg) = {} THEN [cfg |-> cfg, err |-> FALSE]
  ELSE IF f.kind = "raftop" THEN [cfg |-> cfg, err |-> TRUE]
  ELSE IF f.kind = "raftop2" /\ Cardinality(Servers(cfg)) > 1
  THEN [cfg |-> RemoveServer(cfg, b), err |-> TRUE]
  ELSE [cfg |-> RemoveServer(cfg, b), err |-> FALSE]

handleDeregisterMember(st, b, f) ==
  IF b = SelfID THEN [st |-> st, err |-> "nil"]
  ELSE
    LET r == removeServer(st.cfg, b, f)
        st1 == [st EXCEPT !.cfg = r.cfg]
    IN  IF r.err THEN [st |-> st1, err |-> "err"]
        ELSE IF f.kind = "fsmread" THEN [st |-> st1, err |-> "err"]
        ELSE IF st1.nodes[b] = "absent" THEN [st |-> st1, err |-> "nil"]
        ELSE IF f.kind = "apply" THEN [st |-> st1, err |-> "err"]
        ELSE [st |-> [st1 EXCEPT !.nodes = DeregisterNode(st1.nodes, b)],
              err |-> "nil"]

\* ------------------------------------------- partition failover planner
\* mutant: the health check's status is not looked at
PassingIgnoringStatus(ns, b) ==
  AscendingFrom(1, {n \in Brokers : ns[n] # "absent" /\ n # b})

\* the passing set, in the order GetNodes returns the nodes
Passing(ns, b) == AscendingFrom(1, {n \in Brokers : ns[n] = "passing" /\ n # b})

\* rand.Intn(len(passing)) for the random number r
PickLeader(passing, r) == passing[(r % Len(passing)) + 1]

\* mutant: the ISR is proposed as it was
NewPartitionKeepingISR(p, b, leader) ==
  [Leader |-> leader, AR |-> Without(p.AR, b), ISR |-> p.ISR]

NewPartition(p, b, leader) ==
  [Leader |-> leader, AR |-> Without(p.AR, b), ISR |-> Without(p.ISR, b)]

PartitionState(id, p) ==
  [Partition |-> id, Leader |-> p.Leader, ISR |-> p.ISR, Replicas |-> p.AR]

\* the loop over the partitions the failed broker leads
RECURSIVE Reassign(_, _, _, _, _, _, _)
Reassign(id, ps, req, b, passing, f, rnd) ==
  IF id > NumPartitions THEN [parts |-> ps, req |-> req, err |-> "nil"]
  ELSE IF ps[id].Leader # b THEN Reassign(id + 1, ps, req, b, passing, f, rnd)
  ELSE IF Len(passing) = 0 THEN [parts |-> ps, req |-> req, err |-> "panic"]
  ELSE IF f.kind = "applypart" /\ f.at = id
  THEN [parts |-> ps, req |-> req, err |-> "err"]
  ELSE Reassign(id + 1,
                RegisterPartition(ps, id,
                                  NewPartition(ps[id], b, PickLeader(passing, rnd[id]))),
                Append(req, PartitionState(id, ps[id])),
                b, passing, f, rnd)

\* mutant: a dial or RPC error skips the node and the loop goes on
RECURSIVE BroadcastPastErrors(_, _, _, _, _)
BroadcastPastErrors(i, passing, lookup, f, to) ==
  IF i > Len(passing)
  THEN [to |-> to,
        err |-> IF f.kind = "rpc" /\ f.at \in Range(passing) THEN "err" ELSE "nil"]
  ELSE IF passing[i] \notin lookup THEN [to |-> to, err |-> "panic"]
  ELSE IF f.kind = "rpc" /\ f.at = passing[i]
  THEN BroadcastPastErrors(i + 1, passing, lookup, f, to)
  ELSE BroadcastPastErrors(i + 1, passing, lookup, f, Append(to, passing[i]))

\* the loop that sends the request to every passing node; `to` lists the
\* brokers the request was delivered to, one entry per delivery
RECURSIVE Broadcast(_, _, _, _, _)
Broadcast(i, passing, lookup, f, to) ==
  IF i > Len(passing) THEN [to |-> to, err |-> "nil"]
  ELSE IF passing[i] \notin lookup THEN [to |-> to, err |-> "panic"]
  ELSE IF f.kind = "rpc" /\ f.at = passing[i] THEN [to |-> to, err |-> "err"]
  ELSE Broadcast(i + 1, passing, lookup, f, Append(to, passing[i]))

\* no LeaderAndISRRequest has been assembled
NoneSent == [controller |-> 0, to |-> <<>>, req |-> <<>>]

handleFailedMember(st, mem, b, f, rnd) ==
  IF f.kind = "apply" THEN [st |-> st, err |-> "err"]
  ELSE
    LET st1 == [st EXCEPT !.nodes = RegisterNode(st.nodes, b, "critical"),
                          !.sent = NoneSent]
    IN  IF f.kind = "getparts" THEN [st |-> st1, err |-> "panic"]
        ELSE IF f.kind = "fsmread" THEN [st |-> st1, err |-> "err"]
        ELSE
          LET passing == Passing(st1.nodes, b)
              plan == Reassign(1, st1.parts, <<>>, b, passing, f, rnd)
              st2 == [st1 EXCEPT !.parts = plan.parts,
                                 !.sent = [controller |-> SelfID, to |-> <<>>,
                                           req |-> plan.req]]
              bc == Broadcast(1, passing, BrokerLookup(mem), f, <<>>)
          IN  IF plan.err # "nil" THEN [st |-> st2, err |-> plan.err]
              ELSE [st |-> [st2 EXCEPT !.sent.to = bc.to], err |-> bc.err]

\* mutant: a failed member is deregistered like one that left
reconcileMemberFailedAsLeft(st, mem, tg, m, f, rnd) ==
  IF m.status = "alive" THEN handleAliveMember(st, mem, tg, m.id, f)
  ELSE handleDeregisterMember(st, m.id, f)

reconcileMember(st, mem, tg, m, f, rnd) ==
  IF m.status = "alive" THEN handleAliveMember(st, mem, tg, m.id, f)
  ELSE IF m.status = "failed" THEN handleFailedMember(st, mem, m.id, f, rnd)
  ELSE handleDeregisterMember(st, m.id, f)

\* ------------------------------------------------------ initial state
IdleLoop ==
  [pc |-> "none", establishedLeader |-> FALSE, reconcileCh |-> FALSE,
   barrierPassed |-> FALSE, passBarrier |-> FALSE, clean |-> FALSE,
   seen |-> [b \in Brokers |-> "alive"], todo |-> {}]

NoLast == [id |-> 0, status |-> "none", err |-> "nil"]

AllBrokers == AscendingFrom(1, Brokers)

\* replica lists start at the leader and follow the broker ids round
Rotation(l) == [i \in 1..NumBrokers |-> ((l + i - 2) % NumBrokers) + 1]

PartitionChoices ==
  UNION {{[Leader |-> l, AR |-> Rotation(l), ISR |-> isr] :
            isr \in {Rotation(l), SubSeq(Rotation(l), 1, 2)}} :
         l \in Brokers \ {SelfID}}

DefaultTags ==
  [b \in Brokers |-> [bootstrap |-> b = SelfID, nonVoter |-> FALSE]]

InitLifecycle ==
  /\ monPc = "select"
  /\ notifyCh = <<>>
  /\ shutdown = FALSE
  /\ stopClosed = {}
  /\ sent = NoneSent
  /\ last = NoLast
  /\ settled = FALSE
  /\ undelivered = {}
  /\ crashed = FALSE

\* an established cluster: every broker is a live member, a registered node
\* and a voter, and every partition has a leader in its ISR
InitCluster ==
  /\ tags = DefaultTags
  /\ raftCfg = [b \in Brokers |-> IF members[b] = "none" THEN "none" ELSE "voter"]

\* the broker starts as a follower of an established cluster whose membership
\* stays as it is: broker 2 is alive or has failed, and its member event is
\* waiting in reconcileCh
Init ==
  /\ InitLifecycle
  /\ members \in {[b \in Brokers |-> IF b = SelfID THEN "alive"
                                      ELSE IF b = 2 THEN s ELSE "none"] :
                    s \in {"alive", "failed", "left"}}
  /\ InitCluster
  /\ reconcileCh = <<[id |-> 2, status |-> members[2]]>>
  /\ weAreLeaderCh = 0
  /\ wg = 0
  /\ monLog = "none"
  /\ raftLeader = FALSE
  /\ ready = FALSE
  /\ loop = [t \in Tokens |-> IdleLoop]
  /\ changesLeft = 0
  /\ nodes = [b \in Brokers |-> IF members[b] = "none" THEN "absent" ELSE "passing"]
  /\ parts = [p \in Partitions |-> [Leader |-> 2, AR |-> <<2, SelfID>>,
                                     ISR |-> <<2, SelfID>>]]

\* the broker has just acquired leadership and stays the leader: the monitor
\* has spawned the leader loop with token 1
InitReconcile ==
  /\ InitLifecycle
  /\ members = [b \in Brokers |-> "alive"]
  /\ InitCluster
  /\ reconcileCh = <<>>
  /\ weAreLeaderCh = 1
  /\ wg = 1
  /\ monLog = "acquired"
  /\ raftLeader = TRUE
  /\ ready = FALSE
  /\ loop = [t \in Tokens |->
               IF t = 1 THEN [IdleLoop EXCEPT !.pc = "RECONCILE"] ELSE IdleLoop]
  /\ changesLeft = MaxChanges
  /\ nodes = [b \in Brokers |-> "passing"]
  /\ parts \in [Partitions -> PartitionChoices]

\* the leader loop has established leadership and waits in its select with a
\* member event for a failed broker in reconcileCh; the nodes' checks and the
\* membership are any the cluster can have got into
InitPlanner ==
  /\ InitLifecycle
  /\ members \in {m \in [Brokers -> {"alive", "failed"}] : m[SelfID] = "alive"}
  /\ InitCluster
  /\ reconcileCh \in {<<[id |-> b, status |-> "failed"]>> : b \in Brokers \ {SelfID}}
  /\ weAreLeaderCh = 1
  /\ wg = 1
  /\ monLog = "acquired"
  /\ raftLeader = TRUE
  /\ ready = TRUE
  /\ loop = [t \in Tokens |->
               IF t = 1
               THEN [IdleLoop EXCEPT !.pc = "WAIT", !.establishedLeader = TRUE,
                                     !.reconcileCh = TRUE, !.barrierPassed = TRUE,
                                     !.passBarrier = TRUE]
               ELSE IdleLoop]
  /\ changesLeft = 0
  /\ nodes \in [Brokers -> {"passing", "critical"}]
  /\ parts \in [Partitions -> PartitionChoices]

\* the leaderLoop of InitPlanner
WaitingLoop ==
  [t \in Tokens |->
     IF t = 1
     THEN [IdleLoop EXCEPT !.pc = "WAIT", !.establishedLeader = TRUE,
                           !.reconcileCh = TRUE, !.barrierPassed = TRUE,
                           !.passBarrier = TRUE]
     ELSE IdleLoop]

\* the leader loop waits in its select with a member event for a broker e
\* that is alive or has left in reconcileCh, e being this node or another;
\* the tags of the members, the raft configuration and the node record of e
\* are any the cluster can have got into
InitMember ==
  /\ InitLifecycle
  /\ \E e \in Brokers, s \in {"alive", "left"} :
       /\ reconcileCh = <<[id |-> e, status |-> s]>>
       /\ members \in {m \in [Brokers -> {"alive", "left", "none"}] :
                         /\ m[e] = s
                         /\ e # SelfID => m[SelfID] = "alive"
                         /\ \A b \in Brokers \ {e} : m[b] # "left"}
       /\ tags \in {[b \in Brokers |-> [bootstrap |-> b \in bs,
                                         nonVoter |-> b = e /\ nv]] :
                      bs \in SUBSET Brokers, nv \in BOOLEAN}
       /\ raftCfg \in {c \in [Brokers -> {"none", "voter", "nonvoter"}] :
                         /\ c[SelfID] = "voter"
                         /\ \A b \in Brokers \ {e} : c[b] # "nonvoter"}
       /\ nodes \in {[b \in Brokers |-> IF b = e THEN n
                                         ELSE IF members[b] = "none" THEN "absent"
                                         ELSE "passing"] :
                       n \in {"absent", "passing"}}
  /\ weAreLeaderCh = 1
  /\ wg = 1
  /\ monLog = "acquired"
  /\ raftLeader = TRUE
  /\ ready = TRUE
  /\ loop = WaitingLoop
  /\ changesLeft = 0
  /\ parts = [p \in Partitions |->
                [Leader |-> SelfID, AR |-> <<SelfID>>, ISR |-> <<SelfID>>]]

\* ------------------------------------------------- consensus engine
\* raft sends an edge on the notify channel; the send blocks while it is full
RaftNotify(e) ==
  /\ ~crashed
  /\ Len(notifyCh) < NotifyChCap
  /\ notifyCh' = Append(notifyCh, e)
  /\ raftLeader' = e
  /\ UNCHANGED <<monitorVars, shutdown, loop, ready, serfVars, fsmVars>>

Shutdown ==
  /\ ~crashed
  /\ ~shutdown
  /\ shutdown' = TRUE
  /\ UNCHANGED <<monitorVars, raftVars, loop, ready, serfVars, fsmVars>>

\* ------------------------------------------------- membership source
NextStatus(s) ==
  IF s = "alive" THEN {"failed", "left"}
  ELSE IF s = "none" THEN {}
  ELSE {"alive"}

\* the membership consumer offers the event to reconcileCh and drops it when
\* the channel is full
Offer(q, m) == IF Len(q) < ReconcileChCap THEN Append(q, m) ELSE q

MemberChange(b, s) ==
  /\ ~crashed
  /\ changesLeft > 0
  /\ b # SelfID
  /\ s \in NextStatus(members[b])
  /\ members' = [members EXCEPT ![b] = s]
  /\ changesLeft' = changesLeft - 1
  /\ reconcileCh' = Offer(reconcileCh, [id |-> b, status |-> s])
  /\ settled' = FALSE
  /\ UNCHANGED <<monitorVars, raftVars, shutdown, loop, ready, tags,
                 nodes, parts, raftCfg, sent, last, undelivered, crashed>>

\* ------------------------------------------------- monitorLeadership
Live(t) == loop[t].pc # "none"

\* make(chan struct{}): a token no goroutine holds
FreshToken == CHOOSE t \in Tokens : ~Live(t) /\ \A u \in Tokens : u < t => Live(u)

\* mutant: no check that a leaderLoop is already running
OnEdgeNoRunningCheck(isLeader, ch) ==
  IF isLeader THEN "acquired"
  ELSE IF ch = 0 THEN "dupStop" ELSE "stopping"

\* mutant: no check that a leaderLoop is running before stopping it
OnEdgeStopUnchecked(isLeader, ch) ==
  IF isLeader
  THEN IF ch # 0 THEN "dupStart" ELSE "acquired"
  ELSE "stopping"

\* the branch monitorLeadership takes for an edge, given weAreLeaderCh
OnEdge(isLeader, ch) ==
  IF isLeader
  THEN IF ch # 0 THEN "dupStart" ELSE "acquired"
  ELSE IF ch = 0 THEN "dupStop" ELSE "stopping"

\* mutant: the monitor does not wait for the leaderLoop to return
LoopJoinedNoWait(n) == TRUE

\* leaderLoop.Wait() returns once the counter is zero
LoopJoined(n) == n = 0

MonitorEdge ==
  /\ ~crashed
  /\ monPc = "select"
  /\ notifyCh # <<>>
  /\ notifyCh' = Tail(notifyCh)
  /\ LET branch == OnEdge(Head(notifyCh), weAreLeaderCh)
     IN  /\ monLog' = branch
         /\ IF branch = "acquired"
            THEN /\ \E t \in Tokens : ~Live(t)
                 /\ weAreLeaderCh' = FreshToken
                 /\ wg' = wg + 1
                 /\ loop' = [loop EXCEPT ![FreshToken] =
                                          [IdleLoop EXCEPT !.pc = "RECONCILE"]]
                 /\ stopClosed' = stopClosed \ {FreshToken}
                 /\ UNCHANGED monPc
            ELSE IF branch = "stopping"
            THEN /\ stopClosed' = stopClosed \cup {weAreLeaderCh}
                 /\ monPc' = "wait"
                 /\ UNCHANGED <<weAreLeaderCh, wg, loop>>
            ELSE UNCHANGED <<monPc, weAreLeaderCh, wg, stopClosed, loop>>
  /\ UNCHANGED <<raftLeader, shutdown, ready, serfVars, fsmVars>>

\* leaderLoop.Wait() returns; weAreLeaderCh = nil
MonitorJoin ==
  /\ ~crashed
  /\ monPc = "wait"
  /\ LoopJoined(wg)
  /\ weAreLeaderCh' = 0
  /\ monPc' = "select"
  /\ monLog' = "lost"
  /\ UNCHANGED <<wg, stopClosed, raftVars, shutdown, loop, ready,
                 serfVars, fsmVars>>

MonitorShutdown ==
  /\ ~crashed
  /\ monPc = "select"
  /\ shutdown
  /\ monPc' = "returned"
  /\ UNCHANGED <<weAreLeaderCh, wg, monLog, stopClosed, raftVars, shutdown, loop, ready, serfVars, fsmVars>>

\* --------------------------------------------------------- leaderLoop
St == [nodes |-> nodes, parts |-> parts, cfg |-> raftCfg, sent |-> sent]

\* the numbers rand draws, one per partition; only the planner draws
Rnds(status) ==
  IF status = "failed" THEN [Partitions -> 0..(NumBrokers - 1)]
  ELSE {[p \in Partitions |-> 0]}

\* the partitions whose leader a reconcileMember call has changed
Reassigned(ps, qs) == {p \in Partitions : qs[p].Leader # ps[p].Leader}

\* the partitions named in a request that reached every passing node
Delivered(r, m) ==
  IF m.status = "failed" /\ r.err = "nil"
  THEN {r.st.sent.req[i].Partition : i \in 1..Len(r.st.sent.req)}
  ELSE {}

\* the effects of one reconcileMember call on the FSM, raft and the peers
Reconciled(r, m) ==
  /\ nodes' = r.st.nodes
  /\ parts' = r.st.parts
  /\ raftCfg' = r.st.cfg
  /\ sent' = r.st.sent
  /\ last' = [id |-> m.id, status |-> m.status, err |-> r.err]
  /\ undelivered' = (undelivered \cup Reassigned(parts, r.st.parts))
                       \ Delivered(r, m)
  /\ crashed' = (r.err = "panic")

\* the results reconcileMember can have for member m, over every failure
\* of the calls it makes and every draw of the random leader
Outcomes(m) ==
  {reconcileMember(St, members, tags, m, f, rnd) :
     f \in Faults(m.status), rnd \in Rnds(m.status)}

\* mutant: the barrier's error is ignored
AfterBarrierIgnoringError(l, ok) ==
  [l EXCEPT !.reconcileCh = FALSE, !.passBarrier = ok,
            !.barrierPassed = l.barrierPassed \/ ok, !.pc = "ESTABLISH"]

\* RECONCILE: reconcileCh = nil, then the barrier; on failure goto WAIT
AfterBarrier(l, ok) ==
  IF ok
  THEN [l EXCEPT !.reconcileCh = FALSE, !.passBarrier = TRUE,
                 !.barrierPassed = TRUE, !.pc = "ESTABLISH"]
  ELSE [l EXCEPT !.reconcileCh = FALSE, !.passBarrier = FALSE, !.pc = "WAIT"]

LoopBarrier(t) ==
  /\ ~crashed
  /\ loop[t].pc = "RECONCILE"
  /\ \E ok \in BOOLEAN : loop' = [loop EXCEPT ![t] = AfterBarrier(loop[t], ok)]
  /\ UNCHANGED <<monitorVars, raftVars, shutdown, ready, serfVars, fsmVars>>

\* establishLeadership once per entry, then reconcile() reads LANMembers()
LoopEstablish(t) ==
  /\ ~crashed
  /\ loop[t].pc = "ESTABLISH"
  /\ ready' = IF loop[t].establishedLeader THEN ready ELSE TRUE
  /\ loop' = [loop EXCEPT ![t].establishedLeader = TRUE,
                          ![t].pc = "reconcile",
                          ![t].seen = members,
                          ![t].clean = TRUE,
                          ![t].todo = LANMembers(members)]
  /\ UNCHANGED <<monitorVars, raftVars, shutdown, serfVars, fsmVars>>

\* mutant: reconcileMember returns the handler's error, so reconcile() stops
\* at the first member that fails and leaderLoop goes to WAIT at once
AfterReconcileAbortOnError(l, err) ==
  IF err # "nil"
  THEN [l EXCEPT !.pc = "WAIT", !.todo = {}, !.clean = FALSE,
                 !.seen = IdleLoop.seen]
  ELSE IF l.todo = {}
  THEN [l EXCEPT !.pc = "WAIT", !.reconcileCh = TRUE, !.clean = FALSE,
                 !.seen = IdleLoop.seen]
  ELSE l

\* the end of reconcile(): reconcileCh = s.reconcileCh, then WAIT
AfterReconcile(l, err) ==
  IF l.todo = {}
  THEN [l EXCEPT !.pc = "WAIT", !.reconcileCh = TRUE, !.clean = FALSE,
                 !.seen = IdleLoop.seen]
  ELSE [l EXCEPT !.clean = l.clean /\ err = "nil"]

\* one iteration of the loop in reconcile()
LoopReconcileMember(t) ==
  /\ ~crashed
  /\ loop[t].pc = "reconcile"
  /\ \E b \in loop[t].todo :
     \E r \in Outcomes([id |-> b, status |-> loop[t].seen[b]]) :
       LET m == [id |-> b, status |-> loop[t].seen[b]]
           l == [loop[t] EXCEPT !.todo = loop[t].todo \ {b},
                                !.clean = loop[t].clean /\ r.err = "nil"]
       IN  /\ Reconciled(r, m)
           /\ settled' = IF l.todo = {} THEN l.clean /\ l.seen = members
                         ELSE settled
           /\ loop' = [loop EXCEPT ![t] = AfterReconcile(l, r.err)]
  /\ UNCHANGED <<monitorVars, raftVars, shutdown, ready, serfVars>>

\* mutant: no deferred revokeLeadership
RevokeOnExitMissing(established, r) == r

\* the deferred revokeLeadership
RevokeOnExit(established, r) == IF established THEN FALSE ELSE r

\* return from leaderLoop: the deferred revoke, then leaderLoop.Done()
Exit(t) ==
  /\ ready' = RevokeOnExit(loop[t].establishedLeader, ready)
  /\ wg' = wg - 1
  /\ loop' = [loop EXCEPT ![t] = IdleLoop]

LoopStop(t) ==
  /\ ~crashed
  /\ loop[t].pc = "WAIT"
  /\ t \in stopClosed
  /\ Exit(t)
  /\ UNCHANGED <<monPc, weAreLeaderCh, monLog, stopClosed, raftVars, shutdown,
                 serfVars, fsmVars>>

LoopShutdown(t) ==
  /\ ~crashed
  /\ loop[t].pc = "WAIT"
  /\ shutdown
  /\ Exit(t)
  /\ UNCHANGED <<monPc, weAreLeaderCh, monLog, stopClosed, raftVars, shutdown,
                 serfVars, fsmVars>>

LoopTick(t) ==
  /\ ~crashed
  /\ loop[t].pc = "WAIT"
  /\ loop' = [loop EXCEPT ![t].pc = "RECONCILE"]
  /\ UNCHANGED <<monitorVars, raftVars, shutdown, ready, serfVars, fsmVars>>

\* mutant: WAIT selects on s.reconcileCh itself
CanReceiveAlways(l) == TRUE

\* a nil channel is never ready in a select
CanReceive(l) == l.reconcileCh

LoopEvent(t) ==
  /\ ~crashed
  /\ loop[t].pc = "WAIT"
  /\ CanReceive(loop[t])
  /\ reconcileCh # <<>>
  /\ reconcileCh' = Tail(reconcileCh)
  /\ \E r \in Outcomes(Head(reconcileCh)) : Reconciled(r, Head(reconcileCh))
  /\ settled' = FALSE
  /\ UNCHANGED <<monitorVars, raftVars, shutdown, loop, ready, members,
                 tags, changesLeft>>

Next ==
  \/ \E e \in BOOLEAN : RaftNotify(e)
  \/ Shutdown
  \/ MonitorEdge
  \/ MonitorJoin
  \/ MonitorShutdown
  \/ \E t \in Tokens : LoopBarrier(t)
  \/ \E t \in Tokens : LoopEstablish(t)
  \/ \E t \in Tokens : LoopReconcileMember(t)
  \/ \E t \in Tokens : LoopStop(t)
  \/ \E t \in Tokens : LoopShutdown(t)
  \/ \E t \in Tokens : LoopTick(t)
  \/ \E t \in Tokens : LoopEvent(t)

Spec == Init /\ [][Next]_vars

\* the scheduling the runtime gives: a goroutine that can take a step takes
\* one, calls in flight return, and a select that is entered again and again
\* with the stop channel closed takes that case in the end
Fairness ==
  /\ WF_vars(MonitorEdge)
  /\ WF_vars(MonitorJoin)
  /\ \A t \in Tokens :
       /\ WF_vars(LoopBarrier(t))
       /\ WF_vars(LoopEstablish(t))
       /\ WF_vars(LoopReconcileMember(t))
       /\ SF_vars(LoopStop(t))

FairSpec == Init /\ [][Next]_vars /\ Fairness

\* the leader loop and the membership source under a stable leader
NextReconcile ==
  \/ \E b \in Brokers, s \in {"alive", "failed", "left"} : MemberChange(b, s)
  \/ \E t \in Tokens : LoopBarrier(t)
  \/ \E t \in Tokens : LoopEstablish(t)
  \/ \E t \in Tokens : LoopReconcileMember(t)
  \/ \E t \in Tokens : LoopTick(t)
  \/ \E t \in Tokens : LoopEvent(t)

SpecReconcile == InitReconcile /\ [][NextReconcile]_vars

\* one member event for a failed broker is reconciled
NextPlanner == \E t \in Tokens : LoopEvent(t)

SpecPlanner == InitPlanner /\ [][NextPlanner]_vars

\* one member event for a broker that is alive or has left is reconciled
NextMember == \E t \in Tokens : LoopEvent(t)

SpecMember == InitMember /\ [][NextMember]_vars

\* ------------------------------------------- leadership monitor claims
LiveLoops == {t \in Tokens : Live(t)}

Spawned == \E t \in Tokens : ~Live(t) /\ Live(t)'

EdgeTaken == Len(notifyCh') < Len(notifyCh)

\* C1: at most one leaderLoop is live and it is the one whose token the
\* monitor holds; a leaderLoop is spawned only when none is live, and while a
\* leaderLoop whose token was closed is still running the monitor takes no edge
OneLeaderLoop ==
  /\ [](/\ Cardinality(LiveLoops) <= 1
        /\ wg = Cardinality(LiveLoops)
        /\ \A t \in LiveLoops : weAreLeaderCh = t)
  /\ [][/\ Spawned => LiveLoops = {}
        /\ EdgeTaken => \A t \in LiveLoops : t \notin stopClosed]_vars

\* a `true` edge is waiting while the stopped leaderLoop is still running
EdgeWaitsForJoin ==
  /\ monPc = "wait"
  /\ weAreLeaderCh \in LiveLoops
  /\ notifyCh = <<TRUE>>

\* C2 as stated: readiness implies that raft holds leadership
ReadyImpliesRaftLeader == ready => raftLeader

\* C2 amended: readiness implies that the monitor holds the token of a live
\* leaderLoop that has established leadership
ReadyImpliesLeaderLoop ==
  ready => /\ weAreLeaderCh \in LiveLoops
           /\ loop[weAreLeaderCh].establishedLeader

\* readiness outlasts raft leadership: the `false` edge is still in the channel
ReadyAfterStepDown ==
  /\ ready
  /\ ~raftLeader
  /\ notifyCh = <<FALSE>>
  /\ monPc = "select"

\* C3: when a leaderLoop that established leadership returns, by the stop
\* token or by shutdown, consistentReadReady is false afterwards, and it is
\* false whenever no leaderLoop is running
ExitRevokes ==
  /\ [](LiveLoops = {} => ~ready)
  /\ [][\A t \in Tokens :
          (Live(t) /\ ~Live(t)' /\ loop[t].establishedLeader) => ~ready']_vars

\* a leaderLoop that reconciled members was stopped and has returned, and the
\* monitor has not yet joined it
StoppedLoopReturned ==
  /\ monPc = "wait"
  /\ wg = 0
  /\ last.id # 0
  /\ ~ready
  /\ ~crashed

\* C4: consistentReadReady is true only while a live leaderLoop has had a
\* Barrier return without error since it was entered
ReadyOnlyAfterBarrier ==
  ready => \E t \in LiveLoops : loop[t].barrierPassed

\* a leaderLoop is in WAIT after its Barrier failed, and is not ready
BarrierFailedNotReady ==
  \E t \in LiveLoops :
    /\ loop[t].pc = "WAIT"
    /\ ~loop[t].barrierPassed
    /\ ~ready

\* C5: a `true` edge while a leaderLoop is running and a `false` edge while
\* none is running change nothing of the monitor or the loops, and the
\* monitor stays in its select
DuplicateEdgesIgnored ==
  [][(/\ EdgeTaken
      /\ \/ Head(notifyCh) /\ weAreLeaderCh # 0
         \/ ~Head(notifyCh) /\ weAreLeaderCh = 0)
     => /\ UNCHANGED <<monPc, weAreLeaderCh, wg, stopClosed, loop>>
        /\ monPc' = "select"]_vars

\* the monitor has just ignored a duplicate `true` edge and the leaderLoop
\* is still running
DuplicateIgnored ==
  /\ monLog = "dupStart"
  /\ monPc = "select"
  /\ weAreLeaderCh \in LiveLoops

\* C6: a member is reconciled only by a leaderLoop that has established
\* leadership, and a member event leaves reconcileCh only in the WAIT of a
\* pass whose Barrier succeeded
EventsAfterEstablish ==
  [][/\ \A t \in Tokens :
          (loop[t].pc = "reconcile" /\ loop'[t] # loop[t])
            => loop[t].establishedLeader
     /\ Len(reconcileCh') < Len(reconcileCh)
          => \E t \in LiveLoops : /\ loop[t].pc = "WAIT"
                                  /\ loop[t].establishedLeader
                                  /\ loop[t].passBarrier]_vars

\* an established leaderLoop waits after a failed Barrier while a member
\* event is queued
EventQueuedAfterFailedBarrier ==
  \E t \in LiveLoops :
    /\ loop[t].pc = "WAIT"
    /\ loop[t].establishedLeader
    /\ ~loop[t].passBarrier
    /\ reconcileCh # <<>>

\* ------------------------------------------------- reconciler claims
Quiescent ==
  /\ settled
  /\ reconcileCh = <<>>
  /\ ~crashed
  /\ \E t \in LiveLoops : loop[t].pc = "WAIT"

\* C7: once a full reconcile pass has run without error after the last
\* membership change and no member event is pending, every alive member has
\* a node with a passing check and every node with a passing check is an
\* alive member
AliveIffPassing ==
  Quiescent =>
    /\ \A b \in LANMembers(members) : members[b] = "alive" => nodes[b] = "passing"
    /\ \A b \in Brokers : nodes[b] = "passing" => members[b] = "alive"

\* C8: every partition with a non-empty ISR has its leader in the ISR
LeaderInISR ==
  \A p \in Partitions :
    parts[p].ISR # <<>> => parts[p].Leader \in Range(parts[p].ISR)

\* the last reconcileMember call was for a failed member, returned no error
\* and found a passing node other than that member
FailoverDone ==
  /\ last.status = "failed"
  /\ last.err = "nil"
  /\ \E n \in Brokers : n # last.id /\ nodes[n] = "passing"

NoErrorTerminates == ~crashed

\* C11: reconciling a failed member leaves the raft configuration as it is,
\* so the failed broker stays a raft peer, and unless the call returns an
\* error the member's node is registered with a critical check
FailedKeepsRaftPeers ==
  [][last'.status = "failed" =>
       /\ raftCfg' = raftCfg
       /\ last'.err # "err" => nodes'[last'.id] = "critical"]_vars

\* a failed member that was a voter has been reconciled without error: its
\* check is critical and it is still a voter
FailedStillVoter ==
  /\ last.status = "failed"
  /\ last.err = "nil"
  /\ nodes[last.id] = "critical"
  /\ raftCfg[last.id] = "voter"

\* C12: reconciling a member that has left and is not this node changes the
\* raft configuration and the nodes of no broker but that member, deregisters
\* its node only when it is out of the raft configuration, and when the call
\* returns no error the member is in neither; for this node nothing changes
LeftMemberRemoved ==
  [][last'.status = "left" =>
       IF last'.id = SelfID
       THEN raftCfg' = raftCfg /\ nodes' = nodes /\ last'.err = "nil"
       ELSE /\ \A o \in Brokers \ {last'.id} :
                 raftCfg'[o] = raftCfg[o] /\ nodes'[o] = nodes[o]
            /\ raftCfg'[last'.id] \in {raftCfg[last'.id], "none"}
            /\ nodes'[last'.id] \in {nodes[last'.id], "absent"}
            /\ nodes' # nodes => raftCfg'[last'.id] = "none" /\ last'.err = "nil"
            /\ last'.err = "nil" =>
                 raftCfg'[last'.id] = "none" /\ nodes'[last'.id] = "absent"]_vars

\* a member other than this node has left and was reconciled without error:
\* it is out of the raft configuration and the FSM, another server is not
LeftMemberGone ==
  /\ last.status = "left"
  /\ last.id # SelfID
  /\ last.err = "nil"
  /\ raftCfg[last.id] = "none"
  /\ nodes[last.id] = "absent"
  /\ \E o \in Brokers \ {SelfID, last.id} :
       raftCfg[o] = "voter" /\ nodes[o] = "passing"

\* member b declares Bootstrap and so does another LAN member
DualBootstrap(b) ==
  /\ tags[b].bootstrap
  /\ \E o \in LANMembers(members) \ {b} : tags[o].bootstrap

\* C13: for an alive member in dual bootstrap joinCluster returns nil whatever
\* raft call would have failed, and reconciling that member leaves the raft
\* configuration as it is
DualBootstrapRefused ==
  /\ [](\A i \in 1..Len(reconcileCh) :
          (reconcileCh[i].status = "alive" /\ DualBootstrap(reconcileCh[i].id))
            => \A f \in Faults("alive") :
                 ~joinCluster(raftCfg, members, tags, reconcileCh[i].id, f).err)
  /\ [][(last'.status = "alive" /\ DualBootstrap(last'.id))
          => raftCfg' = raftCfg]_vars

\* this node and another broker both declare Bootstrap; the other's alive
\* event was reconciled without error and it is no raft server
DualBootstrapIgnored ==
  /\ last.status = "alive"
  /\ last.err = "nil"
  /\ last.id # SelfID
  /\ tags[last.id].bootstrap
  /\ tags[SelfID].bootstrap
  /\ raftCfg[last.id] = "none"

\* the raft configuration after member b was added with its NonVoter flag: a
\* non-voter is added only where b is no server yet, a voter in any case
JoinedAs(cfg, b, nonVoter) ==
  [o \in Brokers |->
     IF o # b THEN cfg[o]
     ELSE IF ~nonVoter THEN "voter"
     ELSE IF cfg[b] = "none" THEN "nonvoter"
     ELSE cfg[b]]

\* C14: reconciling an alive member that passes the bootstrap check changes
\* nothing in raft when it is this node and raft has fewer than three servers;
\* otherwise the only change it can make is to add the member as its NonVoter
\* flag says, which it has done when it returns no error, and a NonVoter
\* member is never made a voter; when it returns no error the member has a
\* node, registered as passing where none existed
JoinFollowsNonVoterFlag ==
  [][(last'.status = "alive" /\ ~DualBootstrap(last'.id)) =>
       LET b == last'.id
           joined == JoinedAs(raftCfg, b, tags[b].nonVoter)
       IN  /\ IF b = SelfID /\ Cardinality(Servers(raftCfg)) < MinServersForSelfJoin
              THEN raftCfg' = raftCfg
              ELSE /\ raftCfg' \in {raftCfg, joined}
                   /\ last'.err = "nil" => raftCfg' = joined
           /\ (tags[b].nonVoter /\ raftCfg[b] # "voter") => raftCfg'[b] # "voter"
           /\ last'.err = "nil" =>
                nodes' = [nodes EXCEPT ![b] = IF nodes[b] = "absent" THEN "passing"
                                              ELSE nodes[b]]]_vars

\* a NonVoter member other than this node was reconciled without error: it
\* is a non-voter of raft and has a node in the FSM
NonVoterJoined ==
  /\ last.status = "alive"
  /\ last.err = "nil"
  /\ last.id # SelfID
  /\ ~DualBootstrap(last.id)
  /\ tags[last.id].nonVoter
  /\ raftCfg[last.id] = "nonvoter"
  /\ nodes[last.id] = "passing"

\* C15: when a handler returns an error for a member of a reconcile pass, the
\* process goes on, that member alone leaves the members still to reconcile,
\* the pass continues with the rest and ends in WAIT with the event channel
\* armed; an error for a member event leaves the leaderLoop in WAIT; and
\* every pass starts with the whole LAN membership to reconcile
ErrorsSwallowed ==
  [][/\ \A t \in Tokens :
          (loop[t].pc = "reconcile" /\ loop'[t] # loop[t] /\ last'.err = "err")
            => /\ ~crashed'
               /\ last'.id \in loop[t].todo
               /\ loop'[t].todo = loop[t].todo \ {last'.id}
               /\ IF loop'[t].todo # {}
                  THEN loop'[t].pc = "reconcile"
                  ELSE loop'[t].pc = "WAIT" /\ loop'[t].reconcileCh
     /\ (Len(reconcileCh') < Len(reconcileCh) /\ last'.err = "err")
          => loop' = loop /\ ~crashed'
     /\ \A t \in Tokens :
          (loop[t].pc # "reconcile" /\ loop'[t].pc = "reconcile")
            => loop'[t].todo = LANMembers(members)]_vars

\* a handler has returned an error in a reconcile pass that still has
\* members to reconcile
ErrorMidPass ==
  /\ last.err = "err"
  /\ ~crashed
  /\ \E t \in LiveLoops :
       /\ loop[t].pc = "reconcile"
       /\ ~loop[t].clean
       /\ last.id \notin loop[t].todo
       /\ loop[t].todo # {}

\* ------------------------------------------------ failover planner claims
\* new holds the ids of old other than b, once each, in the order of old
TrimmedOf(new, old, b) ==
  /\ Range(new) = Range(old) \ {b}
  /\ Len(new) = Cardinality(Range(new))
  /\ \A i, j \in 1..Len(new) :
       i < j => \E k, l \in 1..Len(old) :
                  k < l /\ old[k] = new[i] /\ old[l] = new[j]

\* C16: a planner run changes only records of partitions the failed broker
\* led, and each such record keeps its partition id and gets the old AR and
\* the old ISR with the failed broker taken out and the order of the rest
\* kept, so that ISR stays within AR; a run without error changes every one
ReplicasTrimmedInOrder ==
  [][last'.status = "failed" =>
       /\ \A p \in Partitions :
            parts'[p] # parts[p] =>
              /\ parts[p].Leader = last'.id
              /\ TrimmedOf(parts'[p].AR, parts[p].AR, last'.id)
              /\ TrimmedOf(parts'[p].ISR, parts[p].ISR, last'.id)
              /\ Range(parts[p].ISR) \subseteq Range(parts[p].AR)
                   => Range(parts'[p].ISR) \subseteq Range(parts'[p].AR)
       /\ last'.err = "nil" =>
            \A p \in Partitions :
              parts[p].Leader = last'.id => parts'[p] # parts[p]]_vars

\* a failover has completed for a broker that led a partition of more than
\* two replicas: the record holds the other replicas and not the broker
ReplicasTrimmed ==
  /\ last.status = "failed"
  /\ last.err = "nil"
  /\ \E i \in 1..Len(sent.req) :
       LET p == sent.req[i].Partition
       IN  /\ Len(parts[p].AR) = NumBrokers - 1
           /\ Len(parts[p].AR) > 1
           /\ Len(parts[p].ISR) > 0
           /\ last.id \notin Range(parts[p].AR) \cup Range(parts[p].ISR)

\* the number of times the last request was delivered to broker n
Deliveries(n, to) == Cardinality({i \in 1..Len(to) : to[i] = n})

\* the step is a planner run that assembled its request and in which every
\* RegisterPartition proposal succeeded
AllProposed ==
  /\ last'.status = "failed"
  /\ sent'.controller = SelfID
  /\ \A p \in Partitions :
       parts[p].Leader = last'.id => parts'[p].Leader # last'.id

\* the request names this node as the controller and holds one
\* PartitionState for each partition the failed broker led
OneStatePerPartition ==
  /\ sent'.controller = SelfID
  /\ \A p \in Partitions :
       Cardinality({i \in 1..Len(sent'.req) : sent'.req[i].Partition = p})
         = IF parts[p].Leader = last'.id THEN 1 ELSE 0

\* the request went, once each, to the passing nodes before n and to no
\* other broker
StoppedAt(n) ==
  /\ nodes'[n] = "passing"
  /\ \A m \in Brokers :
       Deliveries(m, sent'.to) = IF nodes'[m] = "passing" /\ m < n THEN 1 ELSE 0

\* the request went once to every passing node and to no other broker
ReachedAll ==
  \A m \in Brokers :
    Deliveries(m, sent'.to) = IF nodes'[m] = "passing" THEN 1 ELSE 0

RequestCarriesRegisteredState ==
  [][last'.status = "failed" =>
       \A i \in 1..Len(sent'.req) :
         LET ps == sent'.req[i]
         IN  /\ ps.Leader = parts'[ps.Partition].Leader
             /\ ps.ISR = parts'[ps.Partition].ISR
             /\ ps.Replicas = parts'[ps.Partition].AR]_vars

\* ------------------------------------------------------ liveness claims
NoLeaderState == monPc = "select" /\ weAreLeaderCh = 0

\* C17: once the monitor has taken a `false` edge while a leaderLoop is live,
\* the leaderLoop returns and the monitor gets back to its select with no
\* leaderLoop, where a `true` edge spawns a fresh one
StoppedLoopIsJoined == (monPc = "wait") ~> NoLeaderState

\* the same, for as long as the process has not been terminated
StoppedLoopIsJoinedUnlessCrashed == (monPc = "wait") ~> (NoLeaderState \/ crashed)

\* C19: once a full reconcile pass has run without error and no member event
\* is pending, every partition whose reassignment was committed has been
\* carried by a request that reached every passing broker, also when the run
\* that reassigned it was aborted and the failover was retried by that pass
ReassignedAreDelivered == Quiescent => undelivered = {}

====
